---- MODULE Spec2Model ----
(***************************************************************************)
(* Concurrency model of the Unit actor of package types                    *)
(* (src/unnamed/part_001): its mutex-guarded fields, its command inbox     *)
(* and event outbox, the processing loop run(), SendCommand, Shutdown,     *)
(* the four command handlers and TakeDamage.                               *)
(*                                                                         *)
(* Goroutines are processes with a program counter.  A method that takes   *)
(* the unit's mutex, touches one field and releases the mutex is one       *)
(* step, enabled only while no writer holds the mutex.  TakeDamage holds   *)
(* the mutex across its read, its write and its return, one step each.     *)
(* An unrecovered panic ends the program: every action requires            *)
(* panic = NoPanic.                                                        *)
(***************************************************************************)
EXTENDS Integers, Sequences, FiniteSets, TLC

----------------------------------------------------------------------------
(* Program constants *)

\* make(chan Command, 10)
InboxCap == 10
\* make(chan UnitEvent, 10)
EventCap == 10

----------------------------------------------------------------------------
(* Bounds of the harness *)

\* SendCommand calls made in all when each call draws its command
MaxSends == 2
\* SendCommand calls of the single sender that repeats one command
FloodSends == 12
\* Direct TakeDamage calls made in all
MaxDamageCalls == 2
\* Upgrade levels a unit's attackUpgrades and armorUpgrades fields go up to
MaxUpgrades == 1

----------------------------------------------------------------------------
(* Values *)

Nil == "nil"
NoHolder == "none"
NoPanic == "none"
SendOnClosed == "send on closed channel"
NilMapWrite == "assignment to entry in nil map"
CloseOfClosed == "close of closed channel"

\* u1 is created as a Marine and is the unit that receives commands;
\* u2 is created as a Zergling and is the target of its attacks.
Units == {"u1", "u2"}
Senders == {"s1", "s2"}
ShutdownCallers == {"h1", "h2"}
DamageCallers == {"d1", "d2"}
\* Goroutines that call the getters of a unit
Getters == {"g1", "g2"}
\* Goroutines that call the managers
Clients == {"c1", "c2", "c3"}
\* Every goroutine that may be inside TakeDamage: a unit's loop (handleAttack)
\* or a direct caller.
Callers == Units \cup DamageCallers

\* The unit that is sent commands and shut down
Commanded == "u1"

UnitStates == {"Idle", "Moving", "Attacking", "Defending", "HoldingPosition",
               "Patrolling", "Repairing", "Building", "Dead"}

P0 == <<0, 0>>
P1 == <<100, 200>>

UnitType(u) == IF u = "u1" THEN "Marine" ELSE "Zergling"

\* The UnitType values units are constructed with, by the name String()
\* gives them; UnitType(99) is a value outside the declared constants, which
\* has no row in the stats table.
UnitTypes == {"Marine", "Zergling", "Zealot", "UnitType(99)"}
Positions == {P0, P1}

\* unitStatsCache, parsed from the embedded unit_stats.json.  The rows are
\* those the tests pin down: Marine 40 health, 6 damage, 0 armor; Zergling 35
\* health, 5 damage, and the armor 0 with which a Marine's hit takes it to 29;
\* Zealot 100 health, 16 damage, 1 armor.  The modifiers of these rows are
\* multiplied by upgrade counts that are 0.  Any other type gets the fallback
\* of initializeStats.
unitStatsCacheZeroFallback(t) ==
    CASE t = "Marine"   -> [MaxHealth |-> 40, BaseDamage |-> 6, BaseArmor |-> 0,
                            ArmorModifier |-> 1, AttackModifier |-> 1]
      [] t = "Zergling" -> [MaxHealth |-> 35, BaseDamage |-> 5, BaseArmor |-> 0,
                            ArmorModifier |-> 1, AttackModifier |-> 1]
      [] t = "Zealot"   -> [MaxHealth |-> 100, BaseDamage |-> 16, BaseArmor |-> 1,
                            ArmorModifier |-> 1, AttackModifier |-> 1]
      [] OTHER          -> [MaxHealth |-> 0, BaseDamage |-> 0, BaseArmor |-> 0,
                            ArmorModifier |-> 0, AttackModifier |-> 0]
unitStatsCache(t) ==
    CASE t = "Marine"   -> [MaxHealth |-> 40, BaseDamage |-> 6, BaseArmor |-> 0,
                            ArmorModifier |-> 1, AttackModifier |-> 1]
      [] t = "Zergling" -> [MaxHealth |-> 35, BaseDamage |-> 5, BaseArmor |-> 0,
                            ArmorModifier |-> 1, AttackModifier |-> 1]
      [] t = "Zealot"   -> [MaxHealth |-> 100, BaseDamage |-> 16, BaseArmor |-> 1,
                            ArmorModifier |-> 1, AttackModifier |-> 1]
      [] OTHER          -> [MaxHealth |-> 50, BaseDamage |-> 5, BaseArmor |-> 0,
                            ArmorModifier |-> 1, AttackModifier |-> 0]

\* initializeStats: the fields of a unit of type t that it assigns
initializeStats(t) ==
    [Type |-> t,
     maxHealth |-> unitStatsCache(t).MaxHealth,
     baseDamage |-> unitStatsCache(t).BaseDamage,
     baseArmor |-> unitStatsCache(t).BaseArmor,
     armorModifier |-> unitStatsCache(t).ArmorModifier,
     attackModifier |-> unitStatsCache(t).AttackModifier,
     armorUpgrades |-> 0,
     attackUpgrades |-> 0]

\* A Unit value no constructor has filled in
ZeroStats ==
    [Type |-> Nil, maxHealth |-> 0, baseDamage |-> 0, baseArmor |-> 0,
     armorModifier |-> 0, attackModifier |-> 0, armorUpgrades |-> 0,
     attackUpgrades |-> 0]

\* The arguments of NewUnit, and their absence before the call
NewUnitArgs(t, pos) == [unitType |-> t, pos |-> pos]
NotMade == [unitType |-> Nil, pos |-> P0]

Command(t, tgt, dest) == [type |-> t, target |-> tgt, dest |-> dest]
CmdMove == Command("CmdMove", Nil, P1)
CmdAttack == Command("CmdAttack", "u2", P0)
CmdAttackNil == Command("CmdAttack", Nil, P0)
CmdStop == Command("CmdStop", Nil, P0)
CmdHold == Command("CmdHold", Nil, P0)
AllCommands == {CmdMove, CmdAttack, CmdAttackNil, CmdStop, CmdHold}

UnitEvent(t, src, tgt) == [type |-> t, source |-> src, target |-> tgt]

\* Amounts the direct callers of TakeDamage pass.
DamageAmounts == {-10, 0, 10, 100}

IdleFrame == [phase |-> "idle", unit |-> Nil, amount |-> 0, tmp |-> 0, ret |-> 0]

\* What the six getters read
Fields == {"health", "damage", "armor", "state", "position", "target"}
NoRead == [phase |-> "idle", unit |-> Nil, field |-> Nil]

\* NewResourceManager returns nil for every initialResources: the program
\* holds no ledger entry.
NewResourceManager == {}

\* A client that has not called a manager yet
Resources == {"minerals", "gas"}
NoDelta == [r \in Resources |-> 0]
NoCall == [op |-> "none", id |-> "", delta |-> NoDelta, ret |-> "none"]

----------------------------------------------------------------------------
VARIABLES
    health, state, position, target,   \* the mutable fields of each unit
    mu,                                \* each unit's RWMutex: the writer holding it
    commands, events,                  \* each unit's inbox and outbox, as buffers
    closed,                            \* whether commands has been closed
    ctxDone,                           \* whether the unit's context is cancelled
    once,                              \* shutdownOnce: "fresh", "running", "done"
    wgCount,                           \* what each unit adds to its WaitGroup
    rpc, rcmd, rarmor,                 \* run(): position, current command, locals
    td,                                \* the TakeDamage frame of each caller
    spc, scmd, sunit, sres,            \* SendCommand: position, argument, result
    budget, palette,                   \* SendCommand calls left, commands they draw
    hpc, hunit,                        \* Shutdown callers
    dbudget,                           \* direct TakeDamage calls left
    panic,                             \* the unrecovered panic, if any
    \* history variables
    nacc, nrun,                        \* commands accepted / received, per unit
    safter,                            \* the sender's call began after a Shutdown returned
    hdone, overlap,                    \* the caller has returned; a call met a running one
    cancelCount, closeCount,           \* executions of cancel() and close()
    dsum, negUsed,                     \* damage written per unit; a negative amount was passed
    sfull,                             \* the call returned from a full inbox of a live unit
    sdead, rdead,                      \* the command was submitted to a unit then Dead
    stats,                             \* the fields of each unit set once by initializeStats
    made,                              \* the arguments each unit was constructed with
    rlast,                             \* the command the loop received last
    rtdead,                            \* that command's target was Dead when it was received
    rd,                                \* the getter call of each reading goroutine
    call,                              \* each client's last call on a manager
    response,                          \* the response channel that call returned
    ledger                             \* rm.resources: the entries of the ledger

vars == <<health, state, position, target, mu, commands, events, closed, ctxDone,
          once, wgCount, rpc, rcmd, rarmor, td, spc, scmd, sunit, sres, budget,
          palette, hpc, hunit, hdone, dbudget, panic, nacc, nrun, safter,
          overlap, cancelCount, closeCount, dsum, negUsed, sfull, sdead, rdead,
          stats, made, rlast, rtdead, rd, call, response, ledger>>

unitVars == <<health, state, position, target>>
chanVars == <<commands, events, closed>>
loopVars == <<rpc, rcmd, rarmor, wgCount, rdead, rlast, rtdead>>
sendVars == <<spc, scmd, sunit, sres, budget, palette, safter, sfull, sdead>>
shutVars == <<hpc, hunit, hdone, overlap>>
onceVars == <<ctxDone, once, cancelCount, closeCount>>
dmgVars == <<td, dbudget, dsum, negUsed>>
buildVars == <<stats, made>>
mgrVars == <<call, response, ledger>>

\* Fields initializeStats sets once and nothing writes afterwards.
maxHealth(u) == stats[u].maxHealth
baseDamage(u) == stats[u].baseDamage
baseArmor(u) == stats[u].baseArmor
attackModifier(u) == stats[u].attackModifier
armorModifier(u) == stats[u].armorModifier
attackUpgrades(u) == stats[u].attackUpgrades
armorUpgrades(u) == stats[u].armorUpgrades

----------------------------------------------------------------------------
(* Channels and locks *)

\* A buffered channel has room while it holds fewer values than its capacity.
ChanHasRoomOffByOne(q, cap) == Len(q) <= cap
ChanHasRoom(q, cap) == Len(q) < cap

\* A send appends to the buffer; a receive takes its head.
ChanSendFront(q, v) == <<v>> \o q
ChanSend(q, v) == Append(q, v)

\* The goroutines inside a getter of u, holding its read lock
RLockHolders(u) == {g \in Getters : rd[g].phase = "read" /\ rd[g].unit = u}

\* mu.Lock() goes through only while nobody holds the mutex, mu.RLock()
\* while no writer holds it.
CanLockAlways(u) == TRUE
CanLock(u) == mu[u] = NoHolder /\ RLockHolders(u) = {}
CanRLockAlways(u) == TRUE
CanRLock(u) == mu[u] = NoHolder

\* sync.Once lets exactly the first caller of Do run the function.
OnceEnterUnguarded(u) == once[u] # "done"
OnceEnter(u) == once[u] = "fresh"

----------------------------------------------------------------------------
(* NewUnit *)

\* No goroutine has called anything yet.
CallersIdle ==
    /\ td = [c \in Callers |-> IdleFrame]
    /\ spc = [s \in Senders |-> "idle"]
    /\ scmd = [s \in Senders |-> CmdStop]
    /\ sunit = [s \in Senders |-> "u1"]
    /\ sres = [s \in Senders |-> "none"]
    /\ hpc = [h \in ShutdownCallers |-> "idle"]
    /\ hunit = [h \in ShutdownCallers |-> "u1"]
    /\ hdone = [h \in ShutdownCallers |-> FALSE]
    /\ panic = NoPanic
    /\ nacc = [u \in Units |-> 0]
    /\ nrun = [u \in Units |-> 0]
    /\ safter = [s \in Senders |-> FALSE]
    /\ overlap = [u \in Units |-> FALSE]
    /\ cancelCount = [u \in Units |-> 0]
    /\ closeCount = [u \in Units |-> 0]
    /\ dsum = [u \in Units |-> 0]
    /\ negUsed = [u \in Units |-> FALSE]
    /\ sfull = [s \in Senders |-> FALSE]
    /\ sdead = [s \in Senders |-> FALSE]
    /\ rdead = [u \in Units |-> FALSE]
    /\ rlast = [u \in Units |-> CmdStop]
    /\ rtdead = [u \in Units |-> FALSE]
    /\ rcmd = [u \in Units |-> CmdStop]
    /\ rarmor = [u \in Units |-> 0]
    /\ mu = [u \in Units |-> NoHolder]
    /\ rd = [g \in Getters |-> NoRead]
    /\ call = [c \in Clients |-> NoCall]
    /\ response = [c \in Clients |-> <<>>]

\* The units as NewUnit returns them, whatever their stats
UnitsBuilt ==
    /\ health = [u \in Units |-> maxHealth(u)]
    /\ state = [u \in Units |-> "Idle"]
    /\ target = [u \in Units |-> Nil]
    /\ commands = [u \in Units |-> <<>>]
    /\ events = [u \in Units |-> <<>>]
    /\ closed = [u \in Units |-> FALSE]
    /\ ctxDone = [u \in Units |-> FALSE]
    /\ once = [u \in Units |-> "fresh"]
    /\ wgCount = [u \in Units |-> 1]
    /\ rpc = [u \in Units |-> "select"]

\* NewUnit("u1", Marine, Position{}, &wg) and NewUnit("u2", Zergling, ...)
NewUnitFields ==
    /\ stats = [u \in Units |-> initializeStats(UnitType(u))]
    /\ made = [u \in Units |-> NewUnitArgs(UnitType(u), P0)]
    /\ position = [u \in Units |-> P0]
    /\ UnitsBuilt
    /\ CallersIdle

\* Before any NewUnit call there is no unit: no loop, nothing on the
\* WaitGroup, no field holding a value.
UnitsUnbuilt ==
    /\ stats = [u \in Units |-> ZeroStats]
    /\ made = [u \in Units |-> NotMade]
    /\ health = [u \in Units |-> 0]
    /\ state = [u \in Units |-> Nil]
    /\ position = [u \in Units |-> P0]
    /\ target = [u \in Units |-> Nil]
    /\ commands = [u \in Units |-> <<>>]
    /\ events = [u \in Units |-> <<>>]
    /\ closed = [u \in Units |-> FALSE]
    /\ ctxDone = [u \in Units |-> FALSE]
    /\ once = [u \in Units |-> "fresh"]
    /\ wgCount = [u \in Units |-> 0]
    /\ rpc = [u \in Units |-> "unbuilt"]

\* NewUnit(id, unitType, pos, wg): the struct literal, initializeStats,
\* wg.Add(1) and go u.run()
NewUnit(u, t, pos) ==
    /\ panic = NoPanic
    /\ made[u] = NotMade
    /\ made' = [made EXCEPT ![u] = NewUnitArgs(t, pos)]
    /\ position' = [position EXCEPT ![u] = pos]
    /\ state' = [state EXCEPT ![u] = "Idle"]
    /\ target' = [target EXCEPT ![u] = Nil]
    /\ commands' = [commands EXCEPT ![u] = <<>>]
    /\ events' = [events EXCEPT ![u] = <<>>]
    /\ closed' = [closed EXCEPT ![u] = FALSE]
    /\ ctxDone' = [ctxDone EXCEPT ![u] = FALSE]
    /\ stats' = [stats EXCEPT ![u] = initializeStats(t)]
    /\ health' = [health EXCEPT ![u] = initializeStats(t).maxHealth]
    /\ wgCount' = [wgCount EXCEPT ![u] = @ + 1]
    /\ rpc' = [rpc EXCEPT ![u] = "select"]
    /\ UNCHANGED <<mu, once, cancelCount, closeCount, rcmd, rarmor, rdead,
                   rlast, rtdead, sendVars, shutVars, dmgVars, panic, nacc,
                   nrun, rd, mgrVars>>

----------------------------------------------------------------------------
(* Getters and the damage formula *)

GetDamage(u) == baseDamage(u) + attackModifier(u) * attackUpgrades(u)
GetArmorNoUpgrades(u) == baseArmor(u)
GetArmor(u) == baseArmor(u) + armorModifier(u) * armorUpgrades(u)

\* CalculateDamageAgainst, given the armor read from the target earlier
DamageResultSwapped(dmg, targetArmor) ==
    IF targetArmor - dmg < 0 THEN 0 ELSE targetArmor - dmg
DamageResult(dmg, targetArmor) ==
    IF dmg - targetArmor < 0 THEN 0 ELSE dmg - targetArmor

\* TakeDamage's new health: subtract, then clamp at 0 from below only
Clamped(h, amount) == IF h - amount < 0 THEN 0 ELSE h - amount

----------------------------------------------------------------------------
(* TakeDamage(amount), called by goroutine c on unit td[c].unit *)

TakeDamage_Lock(c) ==
    /\ panic = NoPanic
    /\ td[c].phase = "lock"
    /\ CanLock(td[c].unit)
    /\ mu' = [mu EXCEPT ![td[c].unit] = c]
    /\ td' = [td EXCEPT ![c].phase = "read"]
    /\ UNCHANGED <<unitVars, chanVars, loopVars, sendVars, shutVars, onceVars,
                   dbudget, dsum, negUsed, panic, nacc, nrun, buildVars, rd,
                   mgrVars>>

\* u.health -= amount, the load
TakeDamage_Read(c) ==
    /\ panic = NoPanic
    /\ td[c].phase = "read"
    /\ td' = [td EXCEPT ![c].phase = "write", ![c].tmp = health[td[c].unit]]
    /\ UNCHANGED <<unitVars, mu, chanVars, loopVars, sendVars, shutVars,
                   onceVars, dbudget, dsum, negUsed, panic, nacc, nrun,
                   buildVars, rd, mgrVars>>

\* u.health -= amount, the store, and the clamp that follows under the same lock
TakeDamage_Write(c) ==
    /\ panic = NoPanic
    /\ td[c].phase = "write"
    /\ health' = [health EXCEPT ![td[c].unit] = Clamped(td[c].tmp, td[c].amount)]
    /\ td' = [td EXCEPT ![c].phase = "return"]
    /\ dsum' = [dsum EXCEPT ![td[c].unit] = @ + td[c].amount]
    /\ UNCHANGED <<state, position, target, mu, chanVars, loopVars, sendVars,
                   shutVars, onceVars, dbudget, negUsed, panic, nacc, nrun,
                   buildVars, rd, mgrVars>>

\* return u.health, then the deferred Unlock
TakeDamage_ReturnNoUnlock(c) ==
    /\ panic = NoPanic
    /\ td[c].phase = "return"
    /\ td' = [td EXCEPT ![c].phase = "done", ![c].ret = health[td[c].unit]]
    /\ mu' = mu
    /\ UNCHANGED <<unitVars, chanVars, loopVars, sendVars, shutVars, onceVars,
                   dbudget, dsum, negUsed, panic, nacc, nrun, buildVars, rd,
                   mgrVars>>
TakeDamage_Return(c) ==
    /\ panic = NoPanic
    /\ td[c].phase = "return"
    /\ td' = [td EXCEPT ![c].phase = "done", ![c].ret = health[td[c].unit]]
    /\ mu' = [mu EXCEPT ![td[c].unit] = NoHolder]
    /\ UNCHANGED <<unitVars, chanVars, loopVars, sendVars, shutVars, onceVars,
                   dbudget, dsum, negUsed, panic, nacc, nrun, buildVars, rd,
                   mgrVars>>

TakeDamage(c) ==
    \/ TakeDamage_Lock(c)
    \/ TakeDamage_Read(c)
    \/ TakeDamage_Write(c)
    \/ TakeDamage_Return(c)

\* A goroutine other than a unit's loop calls TakeDamage(amount) on unit u.
DamageCall(d, u, amount) ==
    /\ panic = NoPanic
    /\ td[d].phase \in {"idle", "done"}
    /\ dbudget > 0
    /\ dbudget' = dbudget - 1
    /\ td' = [td EXCEPT ![d] = [phase |-> "lock", unit |-> u, amount |-> amount,
                                 tmp |-> 0, ret |-> 0]]
    /\ negUsed' = [negUsed EXCEPT ![u] = @ \/ amount < 0]
    /\ UNCHANGED <<unitVars, mu, chanVars, loopVars, sendVars, shutVars,
                   onceVars, dsum, panic, nacc, nrun, buildVars, rd, mgrVars>>

----------------------------------------------------------------------------
(* GetHealth, GetDamage, GetArmor, GetState, GetPosition, GetTarget, called
   by goroutine g on unit u *)

\* u.mu.RLock()
Getter_RLock(g, u, f) ==
    /\ panic = NoPanic
    /\ rd[g].phase = "idle"
    /\ CanRLock(u)
    /\ rd' = [rd EXCEPT ![g] = [phase |-> "read", unit |-> u, field |-> f]]
    /\ UNCHANGED <<unitVars, mu, chanVars, loopVars, sendVars, shutVars,
                   onceVars, dmgVars, panic, nacc, nrun, buildVars, mgrVars>>

\* return u.<field>, then the deferred RUnlock
Getter_Return(g) ==
    /\ panic = NoPanic
    /\ rd[g].phase = "read"
    /\ rd' = [rd EXCEPT ![g] = NoRead]
    /\ UNCHANGED <<unitVars, mu, chanVars, loopVars, sendVars, shutVars,
                   onceVars, dmgVars, panic, nacc, nrun, buildVars, mgrVars>>

----------------------------------------------------------------------------
(* run(): the select and the dispatch on cmd.Type *)

\* Back at the select the handler's frame is gone: its locals hold no value.
NoCommand == CmdStop

\* The switch on cmd.Type, and handleAttack's return on a nil target
FirstStepNilUnchecked(cmd) ==
    CASE cmd.type = "CmdMove" -> "move_state"
      [] cmd.type = "CmdAttack" -> "attack_state"
      [] cmd.type = "CmdStop" -> "stop_state"
      [] cmd.type = "CmdHold" -> "hold_state"
FirstStepStopAsHold(cmd) ==
    CASE cmd.type = "CmdMove" -> "move_state"
      [] cmd.type = "CmdAttack" ->
            IF cmd.target = Nil THEN "select" ELSE "attack_state"
      [] cmd.type = "CmdStop" -> "hold_state"
      [] cmd.type = "CmdHold" -> "hold_state"
FirstStepHoldAsStop(cmd) ==
    CASE cmd.type = "CmdMove" -> "move_state"
      [] cmd.type = "CmdAttack" ->
            IF cmd.target = Nil THEN "select" ELSE "attack_state"
      [] cmd.type = "CmdStop" -> "stop_state"
      [] cmd.type = "CmdHold" -> "stop_state"
FirstStep(cmd) ==
    CASE cmd.type = "CmdMove" -> "move_state"
      [] cmd.type = "CmdAttack" ->
            IF cmd.target = Nil THEN "select" ELSE "attack_state"
      [] cmd.type = "CmdStop" -> "stop_state"
      [] cmd.type = "CmdHold" -> "hold_state"

\* case cmd, ok := <-u.commands with a buffered command
run_Receive(u) ==
    /\ panic = NoPanic
    /\ rpc[u] = "select"
    /\ Len(commands[u]) > 0
    /\ commands' = [commands EXCEPT ![u] = Tail(@)]
    /\ rpc' = [rpc EXCEPT ![u] = FirstStep(Head(commands[u]).cmd)]
    /\ rcmd' = [rcmd EXCEPT ![u] = IF rpc'[u] = "select" THEN NoCommand
                                   ELSE Head(commands[u]).cmd]
    /\ nrun' = [nrun EXCEPT ![u] = @ + 1]
    /\ rdead' = [rdead EXCEPT ![u] = Head(commands[u]).dead]
    /\ rlast' = [rlast EXCEPT ![u] = Head(commands[u]).cmd]
    /\ rtdead' = [rtdead EXCEPT ![u] =
                    /\ Head(commands[u]).cmd.target # Nil
                    /\ state[Head(commands[u]).cmd.target] = "Dead"]
    /\ UNCHANGED <<unitVars, mu, events, closed, rarmor, wgCount, sendVars,
                   shutVars, onceVars, dmgVars, panic, nacc, buildVars, rd,
                   mgrVars>>

\* case cmd, ok := <-u.commands on the closed, drained channel: !ok, return
run_Closed(u) ==
    /\ panic = NoPanic
    /\ rpc[u] = "select"
    /\ Len(commands[u]) = 0
    /\ closed[u]
    /\ rpc' = [rpc EXCEPT ![u] = "exited"]
    /\ wgCount' = [wgCount EXCEPT ![u] = @ - 1]
    /\ UNCHANGED <<unitVars, mu, chanVars, rcmd, rarmor, rdead, rlast, rtdead,
                   sendVars, shutVars, onceVars, dmgVars, panic, nacc, nrun,
                   buildVars, rd, mgrVars>>

\* case <-u.ctx.Done(): return
run_CtxDone(u) ==
    /\ panic = NoPanic
    /\ rpc[u] = "select"
    /\ ctxDone[u]
    /\ rpc' = [rpc EXCEPT ![u] = "exited"]
    /\ wgCount' = [wgCount EXCEPT ![u] = @ - 1]
    /\ UNCHANGED <<unitVars, mu, chanVars, rcmd, rarmor, rdead, rlast, rtdead,
                   sendVars, shutVars, onceVars, dmgVars, panic, nacc, nrun,
                   buildVars, rd, mgrVars>>

----------------------------------------------------------------------------
(* The command handlers, one step per call they make *)

loopFrame == <<mu, commands, closed, wgCount, rdead, rlast, rtdead, sendVars,
               shutVars, onceVars, dbudget, dsum, negUsed, panic, nacc, nrun,
               buildVars, rd, mgrVars>>

handleMove_SetState(u) ==
    /\ panic = NoPanic
    /\ rpc[u] = "move_state"
    /\ CanLock(u)
    /\ state' = [state EXCEPT ![u] = "Moving"]
    /\ rpc' = [rpc EXCEPT ![u] = "move_position"]
    /\ UNCHANGED <<health, position, target, events, rarmor, td, rcmd,
                   loopFrame>>

handleMove_SetPosition(u) ==
    /\ panic = NoPanic
    /\ rpc[u] = "move_position"
    /\ CanLock(u)
    /\ position' = [position EXCEPT ![u] = rcmd[u].dest]
    /\ rpc' = [rpc EXCEPT ![u] = "move_emit"]
    /\ UNCHANGED <<health, state, target, events, rarmor, td, rcmd, loopFrame>>

\* u.events <- moveEvent: a plain send, which waits for room in the buffer
handleMove_EmitTwice(u) ==
    /\ panic = NoPanic
    /\ rpc[u] = "move_emit"
    /\ ChanHasRoom(events[u], EventCap)
    /\ events' = [events EXCEPT ![u] = ChanSend(ChanSend(@, UnitEvent("EventMoved", u, Nil)),
                                                UnitEvent("EventMoved", u, Nil))]
    /\ rpc' = [rpc EXCEPT ![u] = "select"]
    /\ rcmd' = [rcmd EXCEPT ![u] = NoCommand]
    /\ UNCHANGED <<unitVars, rarmor, td, loopFrame>>
handleMove_Emit(u) ==
    /\ panic = NoPanic
    /\ rpc[u] = "move_emit"
    /\ ChanHasRoom(events[u], EventCap)
    /\ events' = [events EXCEPT ![u] = ChanSend(@, UnitEvent("EventMoved", u, Nil))]
    /\ rpc' = [rpc EXCEPT ![u] = "select"]
    /\ rcmd' = [rcmd EXCEPT ![u] = NoCommand]
    /\ UNCHANGED <<unitVars, rarmor, td, loopFrame>>

handleAttack_SetState(u) ==
    /\ panic = NoPanic
    /\ rpc[u] = "attack_state"
    /\ CanLock(u)
    /\ state' = [state EXCEPT ![u] = "Attacking"]
    /\ rpc' = [rpc EXCEPT ![u] = "attack_target"]
    /\ UNCHANGED <<health, position, target, events, rarmor, td, rcmd,
                   loopFrame>>

handleAttack_SetTarget(u) ==
    /\ panic = NoPanic
    /\ rpc[u] = "attack_target"
    /\ CanLock(u)
    /\ target' = [target EXCEPT ![u] = rcmd[u].target]
    /\ rpc' = [rpc EXCEPT ![u] = "attack_armor"]
    /\ UNCHANGED <<health, state, position, events, rarmor, td, rcmd,
                   loopFrame>>

\* CalculateDamageAgainst: targetArmor := target.GetArmor()
handleAttack_GetArmor(u) ==
    /\ panic = NoPanic
    /\ rpc[u] = "attack_armor"
    /\ CanRLock(rcmd[u].target)
    /\ rarmor' = [rarmor EXCEPT ![u] = GetArmor(rcmd[u].target)]
    /\ rpc' = [rpc EXCEPT ![u] = "attack_damage"]
    /\ UNCHANGED <<unitVars, events, td, rcmd, loopFrame>>

\* CalculateDamageAgainst: dmg := u.GetDamage() and the result, with which
\* cmd.Target.TakeDamage(dmg) is entered
handleAttack_GetDamageKeepLock(u) ==
    /\ panic = NoPanic
    /\ rpc[u] = "attack_damage"
    /\ CanLock(u)
    /\ mu' = [mu EXCEPT ![u] = u]
    /\ td' = [td EXCEPT ![u] = [phase |-> "lock", unit |-> rcmd[u].target,
                                 amount |-> DamageResult(GetDamage(u), rarmor[u]),
                                 tmp |-> 0, ret |-> 0]]
    /\ rpc' = [rpc EXCEPT ![u] = "attack_emit"]
    /\ UNCHANGED <<unitVars, events, rarmor, rcmd, commands, closed, wgCount,
                   rdead, rlast, rtdead, sendVars, shutVars, onceVars, dbudget,
                   dsum, negUsed, panic, nacc, nrun, buildVars, rd, mgrVars>>
handleAttack_GetDamage(u) ==
    /\ panic = NoPanic
    /\ rpc[u] = "attack_damage"
    /\ CanRLock(u)
    /\ td' = [td EXCEPT ![u] = [phase |-> "lock", unit |-> rcmd[u].target,
                                 amount |-> DamageResult(GetDamage(u), rarmor[u]),
                                 tmp |-> 0, ret |-> 0]]
    /\ rpc' = [rpc EXCEPT ![u] = "attack_emit"]
    /\ UNCHANGED <<unitVars, events, rarmor, rcmd, loopFrame>>

\* u.events <- attackEvent, once TakeDamage has returned
handleAttack_Emit(u) ==
    /\ panic = NoPanic
    /\ rpc[u] = "attack_emit"
    /\ td[u].phase = "done"
    /\ ChanHasRoom(events[u], EventCap)
    /\ events' = [events EXCEPT
                    ![u] = ChanSend(@, UnitEvent("EventDamaged", u, rcmd[u].target))]
    /\ td' = [td EXCEPT ![u] = IdleFrame]
    /\ rpc' = [rpc EXCEPT ![u] = "select"]
    /\ rcmd' = [rcmd EXCEPT ![u] = NoCommand]
    /\ rarmor' = [rarmor EXCEPT ![u] = 0]
    /\ UNCHANGED <<unitVars, loopFrame>>

handleStop_SetState(u) ==
    /\ panic = NoPanic
    /\ rpc[u] = "stop_state"
    /\ CanLock(u)
    /\ state' = [state EXCEPT ![u] = "Idle"]
    /\ rpc' = [rpc EXCEPT ![u] = "stop_target"]
    /\ UNCHANGED <<health, position, target, events, rarmor, td, rcmd,
                   loopFrame>>

handleStop_SetTargetKept(u) ==
    /\ panic = NoPanic
    /\ rpc[u] = "stop_target"
    /\ CanLock(u)
    /\ rpc' = [rpc EXCEPT ![u] = "select"]
    /\ rcmd' = [rcmd EXCEPT ![u] = NoCommand]
    /\ UNCHANGED <<health, state, position, target, events, rarmor, td,
                   loopFrame>>
handleStop_SetTarget(u) ==
    /\ panic = NoPanic
    /\ rpc[u] = "stop_target"
    /\ CanLock(u)
    /\ target' = [target EXCEPT ![u] = Nil]
    /\ rpc' = [rpc EXCEPT ![u] = "select"]
    /\ rcmd' = [rcmd EXCEPT ![u] = NoCommand]
    /\ UNCHANGED <<health, state, position, events, rarmor, td, loopFrame>>

handleHold(u) ==
    /\ panic = NoPanic
    /\ rpc[u] = "hold_state"
    /\ CanLock(u)
    /\ state' = [state EXCEPT ![u] = "HoldingPosition"]
    /\ rpc' = [rpc EXCEPT ![u] = "select"]
    /\ rcmd' = [rcmd EXCEPT ![u] = NoCommand]
    /\ UNCHANGED <<health, position, target, events, rarmor, td, loopFrame>>

----------------------------------------------------------------------------
(* SendCommand(cmd) on unit u, called by goroutine s *)

\* The first select: case <-u.ctx.Done() against default
SendCheckCtxSkipped(u) == FALSE
SendCheckCtx(u) == ctxDone[u]

\* The inbox of the live unit u holds its full capacity.
FullAndLive(u) == Len(commands[u]) = InboxCap /\ ~ctxDone[u]

ShutdownReturned(u) == \E h \in ShutdownCallers : hunit[h] = u /\ hdone[h]

SendCommand_Check(s, u, cmd) ==
    /\ panic = NoPanic
    /\ spc[s] = "idle"
    /\ budget > 0
    /\ cmd \in palette
    /\ budget' = budget - 1
    /\ sunit' = [sunit EXCEPT ![s] = u]
    /\ safter' = [safter EXCEPT ![s] = ShutdownReturned(u)]
    /\ sdead' = [sdead EXCEPT ![s] = state[u] = "Dead"]
    /\ sfull' = [sfull EXCEPT ![s] = FALSE]
    /\ IF SendCheckCtx(u)
       THEN /\ sres' = [sres EXCEPT ![s] = "shutting down"]
            /\ UNCHANGED <<spc, scmd>>
       ELSE /\ sres' = [sres EXCEPT ![s] = "none"]
            /\ spc' = [spc EXCEPT ![s] = "select"]
            /\ scmd' = [scmd EXCEPT ![s] = cmd]
    /\ UNCHANGED <<unitVars, mu, chanVars, loopVars, palette, shutVars,
                   onceVars, dmgVars, panic, nacc, nrun, buildVars, rd,
                   mgrVars>>

\* The second select, case u.commands <- cmd, with room in the open channel
SendCommand_Send(s) ==
    /\ panic = NoPanic
    /\ spc[s] = "select"
    /\ ~closed[sunit[s]]
    /\ ChanHasRoom(commands[sunit[s]], InboxCap)
    /\ commands' = [commands EXCEPT ![sunit[s]] =
                      ChanSend(@, [cmd |-> scmd[s], seq |-> nacc[sunit[s]] + 1,
                                   dead |-> sdead[s]])]
    /\ nacc' = [nacc EXCEPT ![sunit[s]] = @ + 1]
    /\ sres' = [sres EXCEPT ![s] = "nil"]
    /\ spc' = [spc EXCEPT ![s] = "idle"]
    /\ scmd' = [scmd EXCEPT ![s] = CmdStop]
    /\ sfull' = [sfull EXCEPT ![s] = FullAndLive(sunit[s])]
    /\ UNCHANGED <<unitVars, mu, events, closed, loopVars, sunit, budget,
                   palette, safter, sdead, shutVars, onceVars, dmgVars, panic,
                   nrun, buildVars, rd, mgrVars>>

\* The second select, case u.commands <- cmd, on the closed channel: the
\* send case is ready and, when select picks it, panics
SendCommand_SendClosed(s) ==
    /\ panic = NoPanic
    /\ spc[s] = "select"
    /\ closed[sunit[s]]
    /\ panic' = SendOnClosed
    /\ spc' = [spc EXCEPT ![s] = "panicked"]
    /\ UNCHANGED <<unitVars, mu, chanVars, loopVars, scmd, sunit, sres, budget,
                   palette, safter, sfull, sdead, shutVars, onceVars, dmgVars,
                   nacc, nrun, buildVars, rd, mgrVars>>

\* The second select, case <-u.ctx.Done()
SendCommand_CtxDone(s) ==
    /\ panic = NoPanic
    /\ spc[s] = "select"
    /\ ctxDone[sunit[s]]
    /\ sres' = [sres EXCEPT ![s] = "shutting down"]
    /\ spc' = [spc EXCEPT ![s] = "idle"]
    /\ scmd' = [scmd EXCEPT ![s] = CmdStop]
    /\ sfull' = [sfull EXCEPT ![s] = FullAndLive(sunit[s])]
    /\ UNCHANGED <<unitVars, mu, chanVars, loopVars, sunit, budget, palette,
                   safter, sdead, shutVars, onceVars, dmgVars, panic, nacc,
                   nrun, buildVars, rd, mgrVars>>

\* The second select, case <-time.After(100 * time.Millisecond).  The model
\* has no clock: the timer may be the first case found ready at any moment.
SendCommand_TimeoutAfterSend(s) ==
    /\ panic = NoPanic
    /\ spc[s] = "select"
    /\ commands' = [commands EXCEPT ![sunit[s]] =
                      IF ChanHasRoom(@, InboxCap) /\ ~closed[sunit[s]]
                      THEN ChanSend(@, [cmd |-> scmd[s], seq |-> nacc[sunit[s]] + 1,
                                        dead |-> sdead[s]])
                      ELSE @]
    /\ nacc' = [nacc EXCEPT ![sunit[s]] =
                  IF commands'[sunit[s]] # commands[sunit[s]] THEN @ + 1 ELSE @]
    /\ sres' = [sres EXCEPT ![s] = "backpressure"]
    /\ spc' = [spc EXCEPT ![s] = "idle"]
    /\ scmd' = [scmd EXCEPT ![s] = CmdStop]
    /\ sfull' = [sfull EXCEPT ![s] = FullAndLive(sunit[s])]
    /\ UNCHANGED <<unitVars, mu, events, closed, loopVars, sunit, budget,
                   palette, safter, sdead, shutVars, onceVars, dmgVars, panic,
                   nrun, buildVars, rd, mgrVars>>
SendCommand_Timeout(s) ==
    /\ panic = NoPanic
    /\ spc[s] = "select"
    /\ sres' = [sres EXCEPT ![s] = "backpressure"]
    /\ spc' = [spc EXCEPT ![s] = "idle"]
    /\ scmd' = [scmd EXCEPT ![s] = CmdStop]
    /\ sfull' = [sfull EXCEPT ![s] = FullAndLive(sunit[s])]
    /\ UNCHANGED <<unitVars, mu, chanVars, loopVars, sunit, budget, palette,
                   safter, sdead, shutVars, onceVars, dmgVars, panic, nacc,
                   nrun, buildVars, rd, mgrVars>>

SendCommand_Select(s) ==
    \/ SendCommand_Send(s)
    \/ SendCommand_SendClosed(s)
    \/ SendCommand_CtxDone(s)
    \/ SendCommand_Timeout(s)

----------------------------------------------------------------------------
(* Shutdown() on unit u, called by goroutine h *)

\* u.shutdownOnce.Do(...): the first caller runs the function; a caller that
\* finds it running waits for it to finish; a later caller returns at once.
Shutdown_Do(h, u) ==
    /\ panic = NoPanic
    /\ hpc[h] = "idle"
    /\ hunit' = [hunit EXCEPT ![h] = u]
    /\ overlap' = [overlap EXCEPT ![u] = @ \/ once[u] = "running"]
    /\ IF OnceEnter(u)
       THEN /\ once' = [once EXCEPT ![u] = "running"]
            /\ hpc' = [hpc EXCEPT ![h] = "cancel"]
       ELSE /\ once' = once
            /\ hpc' = [hpc EXCEPT ![h] = "wait"]
    /\ UNCHANGED <<unitVars, mu, chanVars, loopVars, sendVars, hdone, ctxDone,
                   cancelCount, closeCount, dmgVars, panic, nacc, nrun,
                   buildVars, rd, mgrVars>>

\* u.cancel()
Shutdown_Cancel(h) ==
    /\ panic = NoPanic
    /\ hpc[h] = "cancel"
    /\ ctxDone' = [ctxDone EXCEPT ![hunit[h]] = TRUE]
    /\ cancelCount' = [cancelCount EXCEPT ![hunit[h]] = @ + 1]
    /\ hpc' = [hpc EXCEPT ![h] = "close"]
    /\ UNCHANGED <<unitVars, mu, chanVars, loopVars, sendVars, hunit, hdone,
                   overlap, once, closeCount, dmgVars, panic, nacc, nrun,
                   buildVars, rd, mgrVars>>

\* close(u.commands), after which Do marks the Once done and Shutdown returns
Shutdown_Close(h) ==
    /\ panic = NoPanic
    /\ hpc[h] = "close"
    /\ IF closed[hunit[h]]
       THEN /\ panic' = CloseOfClosed
            /\ hpc' = [hpc EXCEPT ![h] = "panicked"]
            /\ UNCHANGED <<closed, closeCount, once, hdone>>
       ELSE /\ closed' = [closed EXCEPT ![hunit[h]] = TRUE]
            /\ closeCount' = [closeCount EXCEPT ![hunit[h]] = @ + 1]
            /\ once' = [once EXCEPT ![hunit[h]] = "done"]
            /\ hpc' = [hpc EXCEPT ![h] = "idle"]
            /\ hdone' = [hdone EXCEPT ![h] = TRUE]
            /\ panic' = panic
    /\ UNCHANGED <<unitVars, mu, commands, events, loopVars, sendVars, hunit,
                   overlap, ctxDone, cancelCount, dmgVars, nacc, nrun,
                   buildVars, rd, mgrVars>>

\* A caller that did not run the function returns once the Once is done.
Shutdown_Wait(h) ==
    /\ panic = NoPanic
    /\ hpc[h] = "wait"
    /\ once[hunit[h]] = "done"
    /\ hpc' = [hpc EXCEPT ![h] = "idle"]
    /\ hdone' = [hdone EXCEPT ![h] = TRUE]
    /\ UNCHANGED <<unitVars, mu, chanVars, loopVars, sendVars, hunit, overlap,
                   onceVars, dmgVars, panic, nacc, nrun, buildVars, rd,
                   mgrVars>>

Shutdown_Body(h) ==
    \/ Shutdown_Cancel(h)
    \/ Shutdown_Close(h)
    \/ Shutdown_Wait(h)

----------------------------------------------------------------------------
(* Other goroutines *)

\* SetState(state) called directly on unit u: the setter is exported, and no
\* code of the package itself ever passes Dead.
SetState(u, s) ==
    /\ panic = NoPanic
    /\ CanLock(u)
    /\ state[u] # s
    /\ state' = [state EXCEPT ![u] = s]
    /\ UNCHANGED <<health, position, target, mu, chanVars, loopVars, sendVars,
                   shutVars, onceVars, dmgVars, panic, nacc, nrun, buildVars,
                   rd, mgrVars>>

\* A goroutine draining the unit's events, as the stress test starts one
ReceiveEvent(u) ==
    /\ panic = NoPanic
    /\ Len(events[u]) > 0
    /\ events' = [events EXCEPT ![u] = Tail(@)]
    /\ UNCHANGED <<unitVars, mu, commands, closed, loopVars, sendVars,
                   shutVars, onceVars, dmgVars, panic, nacc, nrun, buildVars,
                   rd, mgrVars>>

----------------------------------------------------------------------------
(* Specifications *)

run_Select(u) ==
    \/ run_Receive(u)
    \/ run_Closed(u)
    \/ run_CtxDone(u)

handleMove(u) ==
    \/ handleMove_SetState(u)
    \/ handleMove_SetPosition(u)
    \/ handleMove_Emit(u)

handleAttack(u) ==
    \/ handleAttack_SetState(u)
    \/ handleAttack_SetTarget(u)
    \/ handleAttack_GetArmor(u)
    \/ handleAttack_GetDamage(u)
    \/ TakeDamage(u)
    \/ handleAttack_Emit(u)

handleStop(u) ==
    \/ handleStop_SetState(u)
    \/ handleStop_SetTarget(u)

run(u) ==
    \/ run_Select(u)
    \/ handleMove(u)
    \/ handleAttack(u)
    \/ handleStop(u)
    \/ handleHold(u)

\* The callers of SendCommand and Shutdown on the commanded unit
Lifecycle(senders, shutters) ==
    \/ \E s \in senders : \E cmd \in AllCommands : SendCommand_Check(s, Commanded, cmd)
    \/ \E s \in senders : SendCommand_Select(s)
    \/ \E h \in shutters : Shutdown_Do(h, Commanded)
    \/ \E h \in shutters : Shutdown_Body(h)

Step(senders, shutters) ==
    \/ run(Commanded)
    \/ Lifecycle(senders, shutters)

\* Two senders that draw each command from all commands, two Shutdown callers
Init ==
    /\ NewUnitFields
    /\ palette = AllCommands
    /\ budget = MaxSends
    /\ dbudget = 0
    /\ ledger = NewResourceManager

Next == Step(Senders, ShutdownCallers)

Spec == Init /\ [][Next]_vars

\* One sender, one Shutdown caller, a goroutine that declares a unit Dead
\* and one that reads the commanded unit's events
NextDead ==
    \/ Step({"s1"}, {"h1"})
    \/ \E u \in Units : SetState(u, "Dead")
    \/ ReceiveEvent(Commanded)

SpecDead == Init /\ [][NextDead]_vars

\* One sender that repeats one command, Stop as the buffer-full test does or
\* Move as the pending-commands test does, and one Shutdown caller
FloodCommands == {CmdStop, CmdMove}

InitFlood ==
    /\ NewUnitFields
    /\ \E cmd \in FloodCommands : palette = {cmd}
    /\ budget = FloodSends
    /\ dbudget = 0
    /\ ledger = NewResourceManager

runFlood(u) ==
    \/ run_Select(u)
    \/ handleMove(u)
    \/ handleStop(u)

NextFlood ==
    \/ runFlood(Commanded)
    \/ Lifecycle({"s1"}, {"h1"})

SpecFlood == InitFlood /\ [][NextFlood]_vars

\* The Go scheduler runs every runnable goroutine, and timers fire: a loop, a
\* SendCommand in its select and a Shutdown under way keep taking steps.
\* Nothing obliges anyone to call, or to read the unit's events.
FairFlood ==
    /\ SpecFlood
    /\ WF_vars(runFlood(Commanded))
    /\ WF_vars(SendCommand_Select("s1"))
    /\ WF_vars(Shutdown_Body("h1"))

\* Concurrent attackers of u2: the loop of u1 handling Attack commands and
\* the direct callers of TakeDamage
InitDamage ==
    /\ NewUnitFields
    /\ palette = {CmdAttack}
    /\ budget = MaxSends
    /\ dbudget = MaxDamageCalls
    /\ ledger = NewResourceManager

NextDamage ==
    \/ SendCommand_Check("s1", Commanded, CmdAttack)
    \/ SendCommand_Send("s1")
    \/ SendCommand_Timeout("s1")
    \/ run_Receive(Commanded)
    \/ handleAttack_SetState(Commanded)
    \/ handleAttack_SetTarget(Commanded)
    \/ handleAttack_GetArmor(Commanded)
    \/ handleAttack_GetDamage(Commanded)
    \/ handleAttack_Emit(Commanded)
    \/ \E c \in DamageCallers \cup {Commanded} : TakeDamage(c)
    \/ \E d \in DamageCallers : \E a \in DamageAmounts : DamageCall(d, "u2", a)

SpecDamage == InitDamage /\ [][NextDamage]_vars

\* CalculateDamageAgainst over the fields it reads.  The attacker's damage
\* fields and the target's armor fields are its inputs: base values as the
\* stats table has them (no attack, Probe 5, Marine 6; Zergling 0, Zealot 1,
\* Battlecruiser 3), either modifier, every upgrade level.
BaseDamages == {0, 5, 6}
BaseArmors == {0, 1, 3}
Modifiers == {0, 1}
Upgrades == 0..MaxUpgrades

InitCalc ==
    /\ \E bd \in BaseDamages, am \in Modifiers, au \in Upgrades,
          ba \in BaseArmors, rm \in Modifiers, ru \in Upgrades :
          stats = [u \in Units |->
                     IF u = Commanded
                     THEN [initializeStats(UnitType(u)) EXCEPT
                              !.baseDamage = bd, !.attackModifier = am,
                              !.attackUpgrades = au]
                     ELSE [initializeStats(UnitType(u)) EXCEPT
                              !.baseArmor = ba, !.armorModifier = rm,
                              !.armorUpgrades = ru]]
    /\ made = [u \in Units |-> NewUnitArgs(UnitType(u), P0)]
    /\ position = [u \in Units |-> P0]
    /\ UnitsBuilt
    /\ CallersIdle
    /\ palette = {CmdAttack}
    /\ budget = MaxSends
    /\ dbudget = 0
    /\ ledger = NewResourceManager

NextCalc ==
    \/ SendCommand_Check("s1", Commanded, CmdAttack)
    \/ SendCommand_Send("s1")
    \/ SendCommand_Timeout("s1")
    \/ run_Receive(Commanded)
    \/ handleAttack(Commanded)

SpecCalc == InitCalc /\ [][NextCalc]_vars

\* Units constructed with any type and position, then one Hold command and
\* one Shutdown for the commanded unit
AllMade == \A u \in Units : made[u] # NotMade

InitNew ==
    /\ UnitsUnbuilt
    /\ CallersIdle
    /\ palette = {CmdHold}
    /\ budget = 1
    /\ dbudget = 0
    /\ ledger = NewResourceManager

NextNew ==
    \/ \E u \in Units : \E t \in UnitTypes : \E pos \in Positions : NewUnit(u, t, pos)
    \/ AllMade /\ Lifecycle({"s1"}, {"h1"})
    \/ run_Select(Commanded)
    \/ handleHold(Commanded)

SpecNew == InitNew /\ [][NextNew]_vars

----------------------------------------------------------------------------
(* ResourceManager and UnitManager. Each client makes one call. *)

\* Everything that belongs to the units
unitSide == <<unitVars, mu, chanVars, loopVars, sendVars, shutVars, onceVars,
              dmgVars, nacc, nrun, buildVars, rd>>

\* The call of client c returns ret
Returns(c, op, id, delta, ret) ==
    /\ panic = NoPanic
    /\ call[c].op = "none"
    /\ call' = [call EXCEPT ![c] =
                   [op |-> op, id |-> id, delta |-> delta, ret |-> ret]]

\* response := make(chan ..., 1); return response
MakeResponse(c) == response' = [response EXCEPT ![c] = <<>>]

AllocateResources(c, resources) ==
    /\ Returns(c, "AllocateResources", "", resources, "chan")
    /\ MakeResponse(c)
    /\ UNCHANGED <<unitSide, panic, ledger>>

ReserveResources(c, resources) ==
    /\ Returns(c, "ReserveResources", "", resources, "chan")
    /\ MakeResponse(c)
    /\ UNCHANGED <<unitSide, panic, ledger>>

TransferResources(c, resources) ==
    /\ Returns(c, "TransferResources", "", resources, "chan")
    /\ MakeResponse(c)
    /\ UNCHANGED <<unitSide, panic, ledger>>

\* GetResourceLevels returns nil, and a nil map reads as 0 under every name
GetResourceLevels == {}
LevelOf(levels, r) ==
    IF \E e \in levels : e.name = r
    THEN (CHOOSE e \in levels : e.name = r).current
    ELSE 0

\* executeTransaction returns TransactionResult{} and writes nothing
executeTransaction(c, tx) ==
    /\ Returns(c, "executeTransaction", "", tx, "Success:false")
    /\ UNCHANGED <<unitSide, panic, response, ledger>>

\* UnitManager.SendCommand
UnitManager_SendCommand(c, unitID) ==
    /\ Returns(c, "SendCommand", unitID, NoDelta, "chan")
    /\ MakeResponse(c)
    /\ UNCHANGED <<unitSide, panic, ledger>>

BroadcastCommand(c) ==
    /\ Returns(c, "BroadcastCommand", "", NoDelta, "nil")
    /\ UNCHANGED <<unitSide, panic, response, ledger>>

\* UnitManager.Shutdown
UnitManager_ShutdownCloseTwice(c) ==
    /\ Returns(c, "Shutdown", "", NoDelta, "nil")
    /\ panic' = IF \E o \in Clients : call[o].op = "Shutdown"
                THEN CloseOfClosed ELSE panic
    /\ UNCHANGED <<unitSide, response, ledger>>
UnitManager_Shutdown(c) ==
    /\ Returns(c, "Shutdown", "", NoDelta, "nil")
    /\ UNCHANGED <<unitSide, panic, response, ledger>>

\* AddUnit(unit): unit is nil, or a unit with that ID
AddUnit(c, unit) ==
    /\ Returns(c, "AddUnit", unit, NoDelta, "nil")
    /\ UNCHANGED <<unitSide, panic, response, ledger>>

GetUnit(id) == [unit |-> Nil, ok |-> FALSE]

\* GetAllUnits returns nil
GetAllUnits(c) ==
    /\ Returns(c, "GetAllUnits", "", NoDelta, "nil")
    /\ UNCHANGED <<unitSide, panic, response, ledger>>

\* snapshot[id] = unit by the client that holds the map GetAllUnits returned:
\* an assignment to an entry of a nil map panics
SnapshotWrite(c, id) ==
    /\ panic = NoPanic
    /\ call[c].op = "GetAllUnits"
    /\ call' = [call EXCEPT ![c].op = "snapshot[id] = unit", ![c].id = id]
    /\ panic' = IF call[c].ret = "nil" THEN NilMapWrite ELSE panic
    /\ UNCHANGED <<unitSide, response, ledger>>

\* Three clients calling the two managers that the constructors returned
initialResources == [r \in Resources |-> 10]
Deltas == [minerals : {-3, -4}, gas : {0, -2}]

InitMgr ==
    /\ NewUnitFields
    /\ palette = {CmdHold}
    /\ budget = 0
    /\ dbudget = 0
    /\ ledger = NewResourceManager

NextMgr ==
    \/ \E c \in Clients : \E d \in Deltas : AllocateResources(c, d)
    \/ \E c \in Clients : \E d \in Deltas : ReserveResources(c, d)
    \/ \E c \in Clients : \E d \in Deltas : TransferResources(c, d)
    \/ \E c \in Clients : \E id \in Units : UnitManager_SendCommand(c, id)
    \/ \E c \in Clients : BroadcastCommand(c)
    \/ \E c \in Clients : UnitManager_Shutdown(c)
    \/ \E c \in Clients : \E unit \in {Nil, ""} \cup Units : AddUnit(c, unit)

SpecMgr == InitMgr /\ [][NextMgr]_vars

\* No goroutine of the managers exists, so the only steps are the calls
FairMgr == SpecMgr /\ WF_vars(NextMgr)

\* Clients that register units, take snapshots of the registry and write to
\* the snapshots
NextSnap ==
    \/ \E c \in Clients : \E unit \in {Nil, ""} \cup Units : AddUnit(c, unit)
    \/ \E c \in Clients : GetAllUnits(c)
    \/ \E c \in Clients : \E id \in Units : SnapshotWrite(c, id)

SpecSnap == InitMgr /\ [][NextSnap]_vars

\* executeTransaction on a ledger of two entries
Ledgers ==
    {{[name |-> "minerals", current |-> m, max |-> 100],
      [name |-> "gas", current |-> g, max |-> 100]} : m \in {10, 100}, g \in {0, 5}}
Transactions == [minerals : {-20, -5, 0, 5}, gas : {-5, 0, 5}]

InitExec ==
    /\ NewUnitFields
    /\ palette = {CmdHold}
    /\ budget = 0
    /\ dbudget = 0
    /\ ledger \in Ledgers

NextExec == \E c \in Clients : \E tx \in Transactions : executeTransaction(c, tx)

SpecExec == InitExec /\ [][NextExec]_vars

----------------------------------------------------------------------------
(* Two units, each running its loop, that are sent Attack commands against
   each other and against themselves *)

AttackEach == {Command("CmdAttack", t, P0) : t \in Units}

InitDuel ==
    /\ NewUnitFields
    /\ palette = AttackEach
    /\ budget = MaxSends
    /\ dbudget = 0
    /\ ledger = NewResourceManager

runDuel(u) ==
    \/ run_Receive(u)
    \/ handleAttack(u)

NextDuel ==
    \/ \E s \in Senders : \E u \in Units : \E cmd \in AttackEach :
          SendCommand_Check(s, u, cmd)
    \/ \E s \in Senders : SendCommand_Send(s)
    \/ \E s \in Senders : SendCommand_Timeout(s)
    \/ \E u \in Units : runDuel(u)

SpecDuel == InitDuel /\ [][NextDuel]_vars

\* The scheduler runs every loop that can take a step
FairDuel == SpecDuel /\ \A u \in Units : WF_vars(runDuel(u))

----------------------------------------------------------------------------
(* Readers and writers of one unit, as TestUnit_ConcurrentReadWrite runs
   them: goroutines in the getters of u2, callers of TakeDamage on u2 and
   callers of SetState on u2 *)

WrittenStates == {"Idle", "Moving"}

InitRW ==
    /\ NewUnitFields
    /\ palette = {CmdHold}
    /\ budget = 0
    /\ dbudget = MaxDamageCalls
    /\ ledger = NewResourceManager

NextRW ==
    \/ \E g \in Getters : \E f \in Fields : Getter_RLock(g, "u2", f)
    \/ \E g \in Getters : Getter_Return(g)
    \/ \E d \in DamageCallers : \E a \in DamageAmounts : DamageCall(d, "u2", a)
    \/ \E d \in DamageCallers : TakeDamage(d)
    \/ \E s \in WrittenStates : SetState("u2", s)

SpecRW == InitRW /\ [][NextRW]_vars

----------------------------------------------------------------------------
(* Properties *)

ShutdownCalled(u) ==
    \E h \in ShutdownCallers : hunit[h] = u /\ (hpc[h] # "idle" \/ hdone[h])

\* C1: once Shutdown has been called on a unit, its loop eventually exits and
\* signals the WaitGroup, whatever is pending in the inbox and whatever
\* handler is under way (short of the program having panicked).
C1_ShutdownLeadsToExit ==
    ShutdownCalled(Commanded) ~>
        (\/ rpc[Commanded] = "exited" /\ wgCount[Commanded] = 0
         \/ panic # NoPanic)

\* C2: no SendCommand ever sends on the closed inbox, however its calls
\* interleave with Shutdown: each call returns nil, the shutting-down error or
\* the backpressure error.
C2_NoSendOnClosed ==
    /\ panic # SendOnClosed
    /\ \A s \in Senders : spc[s] # "panicked"

\* C3: in every reachable state the health of every unit is within
\* [0, maxHealth], whatever amounts TakeDamage has been called with.
C3_HealthInRange ==
    \A u \in Units : 0 <= health[u] /\ health[u] <= maxHealth(u)

\* C4: however many Shutdown calls are made on a unit, one after the other or
\* at once, none panics, cancel and close each run at most once, and as soon
\* as any call has returned the unit is cancelled and closed, each exactly once.
C4_ShutdownIdempotent ==
    \A u \in Units :
        /\ panic # CloseOfClosed
        /\ cancelCount[u] <= 1
        /\ closeCount[u] <= 1
        /\ ShutdownReturned(u) =>
              /\ ctxDone[u] /\ closed[u] /\ once[u] = "done"
              /\ cancelCount[u] = 1 /\ closeCount[u] = 1

\* Both callers have returned from Shutdown, and one of the calls arrived
\* while another was inside the Once.
C4_Witness ==
    /\ overlap[Commanded]
    /\ \A h \in ShutdownCallers : hdone[h] /\ hpc[h] = "idle"

\* C5: a SendCommand that begins after a Shutdown of the unit has returned
\* fails with the shutting-down error without reaching the send.
C5_NoCommandAfterShutdown ==
    \A s \in Senders :
        safter[s] => spc[s] = "idle" /\ sres[s] = "shutting down"

C5_Witness ==
    \E s \in Senders : safter[s] /\ sres[s] = "shutting down"

\* C6: a SendCommand in its select always comes back; one that comes back
\* from a live unit whose inbox holds its full capacity returns the
\* backpressure error; and the inbox never holds more than its capacity.
C6_SendNeverBlocksForever ==
    /\ [](\A u \in Units : Len(commands[u]) <= InboxCap)
    /\ [](\A s \in Senders : sfull[s] => sres[s] = "backpressure")
    /\ \A s \in Senders :
          spc[s] = "select" ~> (spc[s] # "select" \/ panic # NoPanic)

C6_Witness ==
    \E s \in Senders :
        /\ sfull[s] /\ sres[s] = "backpressure" /\ spc[s] = "idle"
        /\ nrun[sunit[s]] = 0

\* C7: the inbox holds exactly the accepted commands not yet received by the
\* loop, in the order in which they were accepted, so that the loop receives
\* (and, being one goroutine, handles) commands in the order of acceptance.
C7_FifoOrder ==
    \A u \in Units :
        /\ nacc[u] = nrun[u] + Len(commands[u])
        /\ \A i \in 1..Len(commands[u]) : commands[u][i].seq = nrun[u] + i

\* Two commands were accepted, both were received in turn, and the second is
\* being handled.
C7_Witness ==
    /\ nacc[Commanded] >= 2
    /\ nrun[Commanded] = 2
    /\ rpc[Commanded] \notin {"select", "exited"}

\* C8: with non-negative amounts only, whenever nobody is inside TakeDamage
\* on a unit its health is max(0, initial health - sum of the amounts
\* applied), and every finished call returned the health its own subtraction
\* produced.
C8_SerializedDamage ==
    /\ \A u \in Units :
          (mu[u] = NoHolder /\ ~negUsed[u]) =>
              health[u] = (IF maxHealth(u) - dsum[u] < 0 THEN 0
                           ELSE maxHealth(u) - dsum[u])
    /\ \A c \in Callers :
          td[c].phase = "done" =>
              td[c].ret = (IF td[c].tmp - td[c].amount < 0 THEN 0
                           ELSE td[c].tmp - td[c].amount)

\* Three attackers have finished a TakeDamage on u2, the loop of u1 among
\* them, and one direct caller read the health another had just written.
C8_Witness ==
    /\ ~negUsed["u2"]
    /\ \A c \in DamageCallers \cup {Commanded} :
          td[c].phase = "done" /\ td[c].amount > 0
    /\ td["d2"].tmp = td["d1"].ret
    /\ td["d1"].tmp < maxHealth("u2")

\* C9: once the unit's state is Dead, no step changes it to another state.
C9_DeadIsTerminal ==
    [][\A u \in Units : state[u] = "Dead" => state'[u] = "Dead"]_vars

\* C10: while the loop handles a command that was submitted to the unit when
\* its state was Dead, neither the unit's position or target nor any unit's
\* health changes.
C10_DeadRejectsCommands ==
    [][\A u \in Units :
          (rdead[u] /\ rpc[u] \notin {"select", "exited"}) =>
              /\ position'[u] = position[u]
              /\ target'[u] = target[u]
              /\ health' = health]_vars

\* C11: in every reachable state a unit whose health is 0 has state Dead.
C11_ZeroHealthIsDead ==
    \A u \in Units : health[u] = 0 => state[u] = "Dead"

\* C12: an Attack command whose target was Dead when the loop took the
\* command up does not modify the target's health: no step of the loop's
\* TakeDamage call changes it.
C12_DeadTargetNotDamaged ==
    [][\A u \in Units :
          (rtdead[u] /\ td[u].phase = "write") =>
              health'[td[u].unit] = health[td[u].unit]]_vars

\* C13: when the loop's TakeDamage call of an Attack command has written,
\* the attacker's state is Attacking, its target is the command's target, and
\* the target's health is max(0, h - max(0, attacker damage - target armor))
\* for the health h the call found; a Marine's first hit on a fresh Zergling
\* leaves it at 29.
C13_AttackEffect ==
    \A u \in Units :
        td[u].phase \in {"return", "done"} =>
            /\ state[u] = "Attacking"
            /\ target[u] = td[u].unit
            /\ rlast[u].target = td[u].unit
            /\ LET raw == (baseDamage(u) + attackModifier(u) * attackUpgrades(u))
                           - (baseArmor(td[u].unit)
                              + armorModifier(td[u].unit) * armorUpgrades(td[u].unit))
                   dmg == IF raw < 0 THEN 0 ELSE raw
               IN  /\ health[td[u].unit] =
                         (IF td[u].tmp - dmg < 0 THEN 0 ELSE td[u].tmp - dmg)
                   /\ (td[u].tmp = 35 /\ dmg = 6) => health[td[u].unit] = 29

\* The Marine has hit the Zergling once, from 35 to 29, and is about to emit
\* the event.
C13_Witness ==
    /\ rpc["u1"] = "attack_emit"
    /\ td["u1"].phase = "done"
    /\ td["u1"].tmp = 35
    /\ health["u2"] = 29
    /\ state["u1"] = "Attacking"
    /\ target["u1"] = "u2"

\* The loop of u has just come back to its select from a command of type t.
Handled(u, t) == rpc[u] = "select" /\ nrun[u] > 0 /\ rlast[u].type = t

\* The loop of u is inside the handler of a command at one of the places pcs.
Handling(u, pcs) == rpc[u] \in pcs

\* C14: an Attack command with a nil target is accepted like any other
\* (SendCommand returns nil and the command is the last of the inbox, or one
\* of the two errors every command can get), and the step in which the loop
\* takes it from the inbox changes no unit's state, target, position or
\* health and no event outbox, and leaves the loop at its select.
C14_NilAttackIgnored ==
    [][/\ \A s \in Senders :
             (spc[s] = "select" /\ scmd[s] = CmdAttackNil /\ spc'[s] # "select"
                 /\ panic' = NoPanic) =>
                 \/ /\ sres'[s] = "nil"
                    /\ Len(commands'[sunit[s]]) = Len(commands[sunit[s]]) + 1
                    /\ commands'[sunit[s]][Len(commands'[sunit[s]])].cmd = CmdAttackNil
                 \/ /\ sres'[s] \in {"shutting down", "backpressure"}
                    /\ commands' = commands
       /\ \A u \in Units :
             (/\ rpc[u] = "select"
              /\ Len(commands[u]) > 0
              /\ Head(commands[u]).cmd = CmdAttackNil
              /\ nrun'[u] = nrun[u] + 1) =>
                 /\ unitVars' = unitVars
                 /\ events' = events
                 /\ rpc'[u] = "select"]_vars

\* A Move was handled, then a nil-target Attack was accepted and taken from
\* the inbox: the unit is as the Move left it and the loop is at its select.
C14_Witness ==
    /\ nrun[Commanded] = 2
    /\ rlast[Commanded] = CmdAttackNil
    /\ rpc[Commanded] = "select"
    /\ state[Commanded] = "Moving"
    /\ position[Commanded] = P1
    /\ Len(events[Commanded]) = 1
    /\ \E s \in Senders : sres[s] = "nil"

\* C15: handleMove sets the state to Moving first, the position to the
\* command's destination second, and then sends one Moved event whose source
\* is the unit; no step of the handler changes the unit's health or target,
\* and only the last one changes the outbox, by that one event.
C15_MoveEffect ==
    /\ [](\A u \in Units :
            /\ Handling(u, {"move_position", "move_emit"}) => state[u] = "Moving"
            /\ Handling(u, {"move_emit"}) => position[u] = rlast[u].dest
            /\ Handled(u, "CmdMove") =>
                  /\ state[u] = "Moving"
                  /\ position[u] = rlast[u].dest
                  /\ Len(events[u]) > 0
                  /\ events[u][Len(events[u])] = UnitEvent("EventMoved", u, Nil))
    /\ [][\A u \in Units :
            Handling(u, {"move_state", "move_position", "move_emit"}) =>
                /\ health'[u] = health[u]
                /\ target'[u] = target[u]
                /\ (rpc[u] = "move_state" /\ rpc'[u] # rpc[u]) =>
                       (rpc'[u] = "move_position" /\ position' = position)
                /\ events'[u] =
                      (IF rpc[u] = "move_emit" /\ rpc'[u] = "select"
                       THEN Append(events[u], UnitEvent("EventMoved", u, Nil))
                       ELSE events[u])]_vars

\* An Attack on u2 and then a Move were handled: the unit is Moving at the
\* destination, its target is still u2, and the Moved event follows the
\* attack's event.
C15_Witness ==
    /\ Handled(Commanded, "CmdMove")
    /\ nrun[Commanded] = 2
    /\ position[Commanded] = P1
    /\ target[Commanded] = "u2"
    /\ Len(events[Commanded]) = 2

\* C16: handleStop sets the state to Idle, then the target to nil; no step of
\* it changes the unit's position or health or sends an event.
C16_StopEffect ==
    /\ [](\A u \in Units :
            /\ Handling(u, {"stop_target"}) => state[u] = "Idle"
            /\ Handled(u, "CmdStop") => (state[u] = "Idle" /\ target[u] = Nil))
    /\ [][\A u \in Units :
            Handling(u, {"stop_state", "stop_target"}) =>
                /\ position'[u] = position[u]
                /\ health'[u] = health[u]
                /\ events' = events]_vars

\* An Attack on u2 and then a Stop were handled: the unit went from
\* Attacking with target u2 to Idle with no target.
C16_Witness ==
    /\ Handled(Commanded, "CmdStop")
    /\ nrun[Commanded] = 2
    /\ health["u2"] = 29
    /\ state[Commanded] = "Idle"
    /\ target[Commanded] = Nil

\* C17: handleHold sets the state to HoldingPosition, and its one step
\* changes neither the unit's target, position or health nor its outbox.
C17_HoldEffect ==
    /\ [](\A u \in Units : Handled(u, "CmdHold") => state[u] = "HoldingPosition")
    /\ [][\A u \in Units :
            Handling(u, {"hold_state"}) =>
                /\ target'[u] = target[u]
                /\ position'[u] = position[u]
                /\ health'[u] = health[u]
                /\ events' = events]_vars

\* An Attack on u2 and then a Hold were handled: the unit holds its position
\* and still has u2 as its target.
C17_Witness ==
    /\ Handled(Commanded, "CmdHold")
    /\ nrun[Commanded] = 2
    /\ state[Commanded] = "HoldingPosition"
    /\ target[Commanded] = "u2"
    /\ health["u2"] = 29

\* C18: the amount CalculateDamageAgainst hands to TakeDamage is
\* max(0, (baseDamage + attackModifier*attackUpgrades of the attacker)
\*        - (baseArmor + armorModifier*armorUpgrades of the target)): never
\* negative, 0 when the armor is at least the damage; and its two steps
\* change no field of any unit.
C18_DamageFormula ==
    /\ [](\A u \in Units :
            rpc[u] = "attack_emit" =>
                LET t == td[u].unit
                    damage == stats[u].baseDamage
                              + stats[u].attackModifier * stats[u].attackUpgrades
                    armor == stats[t].baseArmor
                             + stats[t].armorModifier * stats[t].armorUpgrades
                IN  /\ td[u].amount = (IF damage - armor > 0 THEN damage - armor ELSE 0)
                    /\ td[u].amount >= 0
                    /\ armor >= damage => td[u].amount = 0)
    /\ [][\A u \in Units :
            rpc[u] \in {"attack_armor", "attack_damage"} =>
                /\ unitVars' = unitVars
                /\ stats' = stats]_vars

\* An attacker with 5 base damage hit a target whose armor of 3 is raised to
\* 4 by an upgrade, for 1; the same run would give 0 against no attack.
C18_Witness ==
    /\ rpc[Commanded] = "attack_emit"
    /\ td[Commanded].phase = "done"
    /\ stats[Commanded].baseDamage = 5
    /\ stats["u2"].baseArmor = 3
    /\ stats["u2"].armorModifier = 1
    /\ stats["u2"].armorUpgrades = 1
    /\ td[Commanded].amount = 1
    /\ health["u2"] = 34

\* An attacker without attack hit a target with armor 3: the amount is 0 and
\* the target's health is what it was.
C18_WitnessZero ==
    /\ rpc[Commanded] = "attack_emit"
    /\ td[Commanded].phase = "done"
    /\ stats[Commanded].baseDamage = 0
    /\ stats["u2"].baseArmor = 3
    /\ td[Commanded].amount = 0
    /\ health["u2"] = 35

\* C19: NewUnit goes through for every UnitType value and never panics; the
\* unit it returns is Idle at the given position with no target, has the
\* given type, its health equal to its maxHealth, zero upgrades, the stats of
\* its type's row (40 health and 6 damage for a Marine) or, without a row, 50
\* health, 5 damage and 0 armor; its loop is at its select and has added
\* exactly one to the WaitGroup, which it takes off exactly when it exits.
C19_NewUnitTotal ==
    /\ [][\A u \in Units :
            (made[u] = NotMade /\ made'[u] # NotMade) =>
                /\ panic' = NoPanic
                /\ state'[u] = "Idle"
                /\ target'[u] = Nil
                /\ position'[u] = made'[u].pos
                /\ stats'[u].Type = made'[u].unitType
                /\ health'[u] = stats'[u].maxHealth
                /\ stats'[u].attackUpgrades = 0
                /\ stats'[u].armorUpgrades = 0
                /\ made'[u].unitType = "Marine" =>
                       (stats'[u].maxHealth = 40 /\ stats'[u].baseDamage = 6)
                /\ made'[u].unitType \notin {"Marine", "Zergling", "Zealot"} =>
                       /\ stats'[u].maxHealth = 50
                       /\ stats'[u].baseDamage = 5
                       /\ stats'[u].baseArmor = 0
                /\ rpc'[u] = "select"
                /\ wgCount[u] = 0
                /\ wgCount'[u] = 1]_vars
    /\ [](\A u \in Units :
            /\ (made[u] = NotMade) = (rpc[u] = "unbuilt")
            /\ wgCount[u] = (IF rpc[u] \in {"unbuilt", "exited"} THEN 0 ELSE 1)
            /\ made[u] # NotMade => stats[u].maxHealth > 0)
    /\ [][\A u \in Units : made[u] # NotMade => (made'[u] = made[u] /\ stats'[u] = stats[u])]_vars

\* A unit of a type without a row was constructed at {100, 200} with the
\* fallback stats, and its loop has since handled a Hold command.
C19_Witness ==
    /\ made[Commanded] = NewUnitArgs("UnitType(99)", P1)
    /\ health[Commanded] = 50
    /\ stats[Commanded].baseDamage = 5
    /\ position[Commanded] = P1
    /\ wgCount[Commanded] = 1
    /\ nrun[Commanded] = 1
    /\ state[Commanded] = "HoldingPosition"

\* The loop of u is at a channel operation: its select on the inbox, or the
\* send of an event.
AtChannel(u) ==
    \/ rpc[u] \in {"select", "move_emit"}
    \/ rpc[u] = "attack_emit" /\ td[u].phase \in {"idle", "done"}

\* The loop of u is inside a method of another unit: GetArmor or TakeDamage
\* of the target.
InOtherUnit(u) ==
    \/ rpc[u] = "attack_armor" /\ rcmd[u].target # u
    \/ td[u].phase \in {"lock", "read", "write", "return"} /\ td[u].unit # u

\* C20: a goroutine at a channel operation (a unit's loop at its select or at
\* an event send, a SendCommand at its select) holds no unit's mutex, and a
\* loop inside a method of another unit holds neither its own unit's mutex
\* nor any other than the one that method itself has taken on its receiver.
C20_NoLockAcrossBlocking ==
    /\ \A u \in Units : AtChannel(u) => \A v \in Units : mu[v] # u
    /\ \A s \in Senders : spc[s] = "select" => \A v \in Units : mu[v] # s
    /\ \A u \in Units :
          InOtherUnit(u) =>
              /\ mu[u] # u
              /\ \A v \in Units : mu[v] = u => v = td[u].unit

\* The loop of u1 is back from TakeDamage on u2 and about to send its event,
\* while a direct caller holds the mutex of u2.
C20_Witness ==
    /\ rpc["u1"] = "attack_emit"
    /\ td["u1"].phase = "done"
    /\ health["u2"] < 35
    /\ \E d \in DamageCallers : mu["u2"] = d
    /\ mu["u1"] = NoHolder

\* The callers of TakeDamage that hold, or should hold, the write lock of u
Writing(u) ==
    {c \in Callers : td[c].phase \in {"read", "write", "return"} /\ td[c].unit = u}

\* C21: every read of a unit's fields happens under its read lock and every
\* write under its write lock: while a goroutine is inside a getter of a unit
\* no writer holds that unit's mutex, a caller inside TakeDamage is the one
\* holder of the mutex, and the fields of a unit change only in a step taken
\* while no getter is inside and by nobody but the holder of the mutex.
\* Getters of the same unit may be inside together.
C21_ReadWriteExclusion ==
    [][\A u \in Units :
          /\ RLockHolders(u) # {} => mu[u] = NoHolder /\ Writing(u) = {}
          /\ \A c \in Writing(u) : mu[u] = c
          /\ <<health[u], state[u], position[u], target[u]>>' #
                <<health[u], state[u], position[u], target[u]>> =>
                 /\ RLockHolders(u) = {}
                 /\ \/ mu[u] = NoHolder /\ mu'[u] = NoHolder
                    \/ /\ mu[u] \in Callers
                       /\ td[mu[u]].phase = "write"
                       /\ td'[mu[u]].phase = "return"]_vars

\* Two goroutines are inside getters of u2 together, after a TakeDamage has
\* written its health, while a caller of TakeDamage waits for the lock.
C21_Witness ==
    /\ rd["g1"].phase = "read" /\ rd["g1"].unit = "u2"
    /\ rd["g2"].phase = "read" /\ rd["g2"].unit = "u2"
    /\ health["u2"] < maxHealth("u2")
    /\ \E d \in DamageCallers : td[d].phase = "lock" /\ td[d].unit = "u2"

\* The allocations submitted to the ResourceManager
Allocating == {c \in Clients : call[c].op = "AllocateResources"}

\* One transaction applied alone: every delta, or none when a level would
\* fall below 0
Applied(levels, delta) ==
    IF \A r \in Resources : levels[r] + delta[r] >= 0
    THEN [r \in Resources |-> levels[r] + delta[r]]
    ELSE levels

\* The levels that applying the transactions of cs one at a time can give
RECURSIVE SerialOutcomes(_, _)
SerialOutcomes(levels, cs) ==
    IF cs = {}
    THEN {levels}
    ELSE UNION {SerialOutcomes(Applied(levels, call[c].delta), cs \ {c}) : c \in cs}

\* C23: once the concurrently submitted allocations have all been made (and
\* nothing but allocations was submitted to the ledger), the levels of the
\* ledger are those of applying them one at a time, in some order, to the
\* resources the manager was created with: no update is lost.
C23_SerialOutcome ==
    (/\ \A c \in Clients : call[c].op # "none"
     /\ Allocating # {}
     /\ \A c \in Clients : call[c].op \notin {"ReserveResources", "TransferResources"})
        => [r \in Resources |-> LevelOf(GetResourceLevels, r)]
              \in SerialOutcomes(initialResources, Allocating)

\* The entry of resource r
Entry(r) == CHOOSE e \in ledger : e.name = r
Fits(tx) ==
    \A r \in Resources :
        /\ Entry(r).current + tx[r] >= 0
        /\ Entry(r).current + tx[r] <= Entry(r).max

C27_ResultArrives ==
    \A c \in Clients : (call[c].ret = "chan") ~> (Len(response[c]) > 0)

C30_AddUnitValidated ==
    \A c \in Clients :
        call[c].op = "AddUnit" =>
            /\ call[c].id \in {Nil, ""} => call[c].ret = "InvalidArgument"
            /\ call[c].ret = "nil" => GetUnit(call[c].id).ok
            /\ \A o \in Clients \ {c} :
                  call[o].op = "AddUnit" /\ call[o].id = call[c].id =>
                      "AlreadyExists" \in {call[c].ret, call[o].ret}

\* The IDs in the map that the GetAllUnits call of c returned: a nil map
\* holds none
SnapshotIDs(c) == {}

\* C31: the map GetAllUnits returns is a copy of the registry at the time of
\* the call: it holds every unit whose AddUnit had returned nil by then, and
\* a later write to it is a write to the copy, which goes through and leaves
\* the registry as it was.
C31_SnapshotIsCopy ==
    [][\A c \in Clients :
          /\ call[c].op = "none" /\ call'[c].op = "GetAllUnits" =>
                \A o \in Clients :
                    (/\ call[o].op = "AddUnit"
                     /\ call[o].ret = "nil"
                     /\ call[o].id \in Units) => call[o].id \in SnapshotIDs(c)
          /\ call[c].op = "GetAllUnits" /\ call'[c].op # "GetAllUnits" =>
                /\ panic' = NoPanic
                /\ \A id \in Units : GetUnit(id)' = GetUnit(id)]_vars

\* C34: when the loop of a unit has exited, no command that SendCommand
\* accepted (returned nil for) is left unreceived in the inbox: every
\* accepted command was handed to its handler before the loop returned.
C34_AcceptedIsExecuted ==
    \A u \in Units :
        rpc[u] = "exited" => Len(commands[u]) = 0 /\ nrun[u] = nacc[u]

\* C35: with nobody receiving from a unit's events, its loop is never
\* blocked for ever at the send that ends handleMove or handleAttack: a loop
\* at that send gets past it (short of the program having panicked), and so
\* goes on to receive the commands accepted after it.
C35_LoopNotBlockedByOutbox ==
    \A u \in Units :
        rpc[u] \in {"move_emit", "attack_emit"} ~>
            (rpc[u] \notin {"move_emit", "attack_emit"} \/ panic # NoPanic)

\* The step in which the SendCommand call of s returns an error
ReturnsError(s) ==
    /\ spc[s] = "select" \/ (spc[s] = "idle" /\ sres'[s] # sres[s])
    /\ spc'[s] = "idle"
    /\ sres'[s] \in {"shutting down", "backpressure"}

\* C36: a SendCommand that returns an error has put nothing into the inbox:
\* the step in which it returns leaves every inbox and the count of accepted
\* commands as they were, and whatever enters an inbox enters it in the step
\* in which a SendCommand returns nil, so that the loop, which takes its
\* commands from the inbox alone, never handles a refused command.
C36_RefusedNotEnqueued ==
    [][/\ \A s \in Senders :
             ReturnsError(s) => commands' = commands /\ nacc' = nacc
       /\ \A u \in Units :
             (Len(commands'[u]) > Len(commands[u]) \/ nacc'[u] # nacc[u]) =>
                 \E s \in Senders :
                     /\ spc[s] = "select" /\ spc'[s] = "idle"
                     /\ sres'[s] = "nil" /\ sunit[s] = u
                     /\ commands'[u] = ChanSend(commands[u],
                           [cmd |-> scmd[s], seq |-> nacc[u] + 1, dead |-> sdead[s]])
       /\ \A u \in Units :
             nrun'[u] # nrun[u] =>
                 /\ Len(commands[u]) > 0
                 /\ rlast'[u] = Head(commands[u]).cmd]_vars

\* A call was refused for backpressure by a live unit whose inbox held its
\* full capacity of accepted commands, and the inbox still holds exactly
\* those.
C36_Witness ==
    /\ sres["s1"] = "backpressure" /\ spc["s1"] = "idle" /\ sfull["s1"]
    /\ Len(commands[Commanded]) = InboxCap
    /\ nacc[Commanded] = nrun[Commanded] + InboxCap
    /\ nrun[Commanded] > 0

\* What GetState and GetTarget return for u is consistent: Attacking comes
\* with a target, and Idle set by the Stop received last comes with none
Consistent(u) ==
    /\ state[u] = "Attacking" => target[u] # Nil
    /\ (/\ state[u] = "Idle"
        /\ nrun[u] > 0
        /\ rlast[u].type = "CmdStop"
        /\ rpc[u] # "stop_state") => target[u] = Nil

\* C37: in every state, what GetState and GetTarget return is consistent.
C37_NeverHalfApplied == \A u \in Units : Consistent(u)

\* C37, amended: what GetState and GetTarget return is consistent whenever
\* the loop is not inside a handler (it waits at its select or has exited).
C37_ConsistentBetweenCommands ==
    \A u \in Units : rpc[u] \in {"select", "exited"} => Consistent(u)

\* The loop is back at its select from a Stop that followed an Attack: the
\* target has lost health, the unit is Idle and has no target.
C37_Witness ==
    /\ rpc[Commanded] = "select"
    /\ nrun[Commanded] = 2
    /\ rlast[Commanded].type = "CmdStop"
    /\ health["u2"] < maxHealth("u2")
    /\ state[Commanded] = "Idle"
    /\ target[Commanded] = Nil

\* The unit whose mutex the loop of u is waiting for, if it is waiting
WaitsFor(u) ==
    IF rpc[u] \in {"attack_state", "attack_target"} /\ ~CanLock(u) THEN u
    ELSE IF rpc[u] = "attack_damage" /\ ~CanRLock(u) THEN u
    ELSE IF rpc[u] = "attack_armor" /\ ~CanRLock(rcmd[u].target)
         THEN rcmd[u].target
    ELSE IF td[u].phase = "lock" /\ ~CanLock(td[u].unit) THEN td[u].unit
    ELSE Nil

\* C38: a loop that waits for a unit's mutex waits for a holder other than
\* itself that is not waiting for any mutex, so no cycle of waiting loops
\* exists; and every loop inside handleAttack gets through its lock
\* operations and back to its select.
C38_NoLockCycle ==
    /\ [](\A u \in Units :
            WaitsFor(u) # Nil =>
                /\ mu[WaitsFor(u)] \in Units \ {u}
                /\ WaitsFor(mu[WaitsFor(u)]) = Nil)
    /\ \A u \in Units :
          (rpc[u] \notin {"select", "exited"}) ~> (rpc[u] = "select")

\* Each of the two loops is inside TakeDamage of the other unit, holding the
\* other's mutex.
C38_Witness ==
    /\ td["u1"].phase = "write" /\ td["u1"].unit = "u2" /\ mu["u2"] = "u1"
    /\ td["u2"].phase = "write" /\ td["u2"].unit = "u1" /\ mu["u1"] = "u2"

\* The outbox of u after the handler of cmd has returned
Emitted(outbox, u, cmd) ==
    IF cmd.type = "CmdMove"
    THEN Append(outbox, UnitEvent("EventMoved", u, Nil))
    ELSE IF cmd.type = "CmdAttack" /\ cmd.target # Nil
    THEN Append(outbox, UnitEvent("EventDamaged", u, cmd.target))
    ELSE outbox

\* C39: with nobody receiving, the outbox of a unit grows by one event, at
\* its end, in the step in which the handler of a Move (EventMoved, no
\* target) or of an Attack with a target (EventDamaged, Source the unit,
\* Target the attacked unit) returns, and in no other step: Stop, Hold and
\* an Attack without a target add nothing, and the events stand in the
\* order in which the loop handled the commands.  Every Move the loop has
\* received does get its event: again and again the outbox holds as many
\* events as Moves were received (short of the program having panicked).
C39_EventsMatchCommands ==
    /\ [](\A u \in Units :
            /\ Len(events[u]) <= nrun[u]
            /\ \A i \in 1..Len(events[u]) : events[u][i].source = u)
    /\ [][\A u \in Units :
            events'[u] =
               (IF rpc[u] \notin {"select", "exited"} /\ rpc'[u] = "select"
                THEN Emitted(events[u], u, rlast[u])
                ELSE events[u])]_vars
    /\ []<>(palette = {CmdMove} =>
               Len(events[Commanded]) = nrun[Commanded] \/ panic # NoPanic)

====
